---- MODULE Spec2Model ----
(***************************************************************************)
(* A model of the led-strip crate (src/src/led.rs) and of its spinner      *)
(* example (src/examples/spinner/src/main.rs).                             *)
(*                                                                         *)
(* Three specifications share the variables:                               *)
(*   Spec         a caller that invokes the strip driver's operations in   *)
(*                any order on one LedStrip;                               *)
(*   ColorSpec    a caller that applies the pure functions of Color;       *)
(*   SpinnerSpec  the spinner's main loop (with the fairness of a program  *)
(*                that never blocks).                                      *)
(*                                                                         *)
(* Values.  A u8 is an integer 0..255.  A u32 is a pair <<hi, lo>> of      *)
(* 16-bit limbs (value hi * 2^16 + lo), so that 32-bit arithmetic keeps    *)
(* its width.  An f64 argument is a pair <<n, d>>, d > 0, standing for     *)
(* n / d.  A &str is a sequence of one-character strings (ASCII only).     *)
(* A Color is a tuple whose first element is the variant's name.           *)
(***************************************************************************)
EXTENDS Integers, Sequences, FiniteSets, TLC

VARIABLES
    led_count,   \* LedStrip.led_count
    pin,         \* level the output pin was last driven to
    wire,        \* the set_high ("H") / set_low ("L") writes of the operation in progress or last made
    delay_ns,    \* the delay_ns made by the operation last invoked, a u32 (<<0, 0>>: none)
    status,      \* "ok", or "panic" once the program has panicked
    pc,          \* "idle", or "each" while LedStrip::each is iterating
    led_index,   \* loop variable of the LedStrip::each in progress or last made
    calls,       \* callback invocations of that each(): <<index, Len(wire) at the call>>
    op,          \* the operation last invoked: [name, arg]
    rests,       \* rest() latches made since the last data bit was emitted
    result,      \* value returned by the Color function last applied: [ok, value]
    mpc,         \* position of the spinner's main
    frame        \* the spinner's frame counter (u16)

vars == <<led_count, pin, wire, delay_ns, status, pc, led_index, calls, op, rests, result, mpc, frame>>

\* ---------------------------------------------------------------- bounds

MaxLeds == 3
MaxRests == 2

\* ------------------------------------------------------- integer helpers

Pow2(k) == 2 ^ k

\* x & y on the low n bits
RECURSIVE BitAnd(_, _, _)
BitAnd(x, y, n) ==
    IF n = 0 THEN 0
    ELSE ((x % 2) * (y % 2)) + 2 * BitAnd(x \div 2, y \div 2, n - 1)

\* u32 << k, bits shifted past bit 31 dropped
Shl32(x, k) ==
    IF k >= 16
    THEN <<(x[2] * Pow2(k - 16)) % 65536, 0>>
    ELSE <<(x[1] * Pow2(k) + (x[2] * Pow2(k)) \div 65536) % 65536, (x[2] * Pow2(k)) % 65536>>

\* (x & 0xFF) as u8, x a u32
LowByte32(x) == BitAnd(x[2], 255, 16)

\* x * 1_000 in u32: the exact high limb (65536 or more when the product
\* does not fit in 32 bits) and the low limb
Mul1000(us) ==
    LET p == us[2] * 1000
    IN  [high |-> us[1] * 1000 + p \div 65536, low |-> p % 65536]

\* ------------------------------------------------------------ hex parsing

HexDigits == <<"0", "1", "2", "3", "4", "5", "6", "7", "8", "9", "a", "b", "c", "d", "e", "f">>
HexDigitsUpper == <<"0", "1", "2", "3", "4", "5", "6", "7", "8", "9", "A", "B", "C", "D", "E", "F">>

\* char::to_digit(16): the digit's value, -1 for None
ToDigit(c) ==
    IF \E i \in 1..16 : HexDigits[i] = c THEN (CHOOSE i \in 1..16 : HexDigits[i] = c) - 1
    ELSE IF \E i \in 1..16 : HexDigitsUpper[i] = c THEN (CHOOSE i \in 1..16 : HexDigitsUpper[i] = c) - 1
    ELSE -1

RECURSIVE DigitsValue(_, _)
DigitsValue(s, acc) ==
    IF s = <<>> THEN [ok |-> TRUE, value |-> acc]
    ELSE IF ToDigit(Head(s)) < 0 THEN [ok |-> FALSE, value |-> 0]
    ELSE DigitsValue(Tail(s), acc * 16 + ToDigit(Head(s)))

\* u8::from_str_radix(s, 16): a lone sign is an error, a leading "+" is
\* skipped, a "-" is no digit of an unsigned type, a value over 255 overflows
FromStrRadix16(s) ==
    IF s = <<>> THEN [ok |-> FALSE, value |-> 0]
    ELSE IF Len(s) = 1 /\ Head(s) \in {"+", "-"} THEN [ok |-> FALSE, value |-> 0]
    ELSE LET digits == IF Head(s) = "+" THEN Tail(s) ELSE s
             r == DigitsValue(digits, 0)
         IN  IF r.ok /\ r.value <= 255 THEN r ELSE [ok |-> FALSE, value |-> 0]

\* parse with the bytes in the order blue, green, red
ParseSwapped(color) ==
    IF Len(color) < 6 THEN [ok |-> FALSE, value |-> <<>>]
    ELSE LET r == FromStrRadix16(SubSeq(color, 1, 2))
             g == FromStrRadix16(SubSeq(color, 3, 4))
             b == FromStrRadix16(SubSeq(color, 5, 6))
         IN  IF r.ok /\ g.ok /\ b.ok
             THEN [ok |-> TRUE, value |-> <<b.value, g.value, r.value>>]
             ELSE [ok |-> FALSE, value |-> <<>>]

\* parse: ok = FALSE is a panic (a slice past the end of the string, or the
\* unwrap of an Err)
Parse(color) ==
    IF Len(color) < 6 THEN [ok |-> FALSE, value |-> <<>>]
    ELSE LET r == FromStrRadix16(SubSeq(color, 1, 2))
             g == FromStrRadix16(SubSeq(color, 3, 4))
             b == FromStrRadix16(SubSeq(color, 5, 6))
         IN  IF r.ok /\ g.ok /\ b.ok
             THEN [ok |-> TRUE, value |-> <<r.value, g.value, b.value>>]
             ELSE [ok |-> FALSE, value |-> <<>>]

\* ------------------------------------------------------------------ Color

NamedRgb(name) ==
    CASE name = "Black" -> <<0, 0, 0>>
      [] name = "Gray" -> <<127, 127, 127>>
      [] name = "White" -> <<255, 255, 255>>
      [] name = "Red" -> <<255, 0, 0>>
      [] name = "Green" -> <<0, 255, 0>>
      [] name = "Blue" -> <<0, 0, 255>>
      [] name = "Cyan" -> <<0, 255, 255>>
      [] name = "Magenta" -> <<255, 0, 255>>
      [] name = "Yellow" -> <<255, 255, 0>>
      [] name = "Orange" -> <<255, 127, 0>>
      [] name = "Purple" -> <<127, 0, 255>>
      [] name = "Pink" -> <<255, 127, 255>>
      [] name = "Turquoise" -> <<0, 127, 255>>

\* the channels a packed u32 is split into, by to_rgb and by color_number
NumChannels(color) ==
    <<LowByte32(Shl32(color, 8)), LowByte32(color), LowByte32(Shl32(color, 16))>>

ToRgb(color) ==
    CASE color[1] = "RGB" -> [ok |-> TRUE, value |-> <<color[2], color[3], color[4]>>]
      [] color[1] = "NUM" -> [ok |-> TRUE, value |-> NumChannels(<<color[2], color[3]>>)]
      [] color[1] = "HEX" -> Parse(color[2])
      [] OTHER -> [ok |-> TRUE, value |-> NamedRgb(color[1])]

\* (n / d).clamp(0.0, 255.0) as u8, d > 0: the cast truncates
ClampAsU8(n, d) ==
    IF n < 0 THEN 0
    ELSE IF n > 255 * d THEN 255
    ELSE n \div d

\* opacity with a cast that wraps modulo 256 in place of the clamp
OpacityWrapping(color, opacity) ==
    LET t == ToRgb(color)
        ch(c) == ((c * opacity[1]) \div opacity[2]) % 256
    IN  IF ~t.ok THEN [ok |-> FALSE, value |-> <<>>]
        ELSE [ok |-> TRUE, value |-> <<"RGB", ch(t.value[1]), ch(t.value[2]), ch(t.value[3])>>]

Opacity(color, opacity) ==
    LET t == ToRgb(color)
        ch(c) == ClampAsU8(c * opacity[1], opacity[2])
    IN  IF ~t.ok THEN [ok |-> FALSE, value |-> <<>>]
        ELSE [ok |-> TRUE, value |-> <<"RGB", ch(t.value[1]), ch(t.value[2]), ch(t.value[3])>>]

\* mix_ratio with a cast that wraps modulo 256 in place of the clamp
MixRatioWrapping(self, color, self_ratio, other_ratio) ==
    LET t == ToRgb(self)
        o == ToRgb(color)
        ch(a, b) == ((a * self_ratio[1] * other_ratio[2] + b * other_ratio[1] * self_ratio[2])
                        \div (self_ratio[2] * other_ratio[2])) % 256
    IN  IF ~t.ok \/ ~o.ok THEN [ok |-> FALSE, value |-> <<>>]
        ELSE [ok |-> TRUE,
              value |-> <<"RGB", ch(t.value[1], o.value[1]), ch(t.value[2], o.value[2]),
                          ch(t.value[3], o.value[3])>>]

\* per channel a * self_ratio + b * other_ratio, over the common denominator
MixRatio(self, color, self_ratio, other_ratio) ==
    LET t == ToRgb(self)
        o == ToRgb(color)
        ch(a, b) == ClampAsU8(a * self_ratio[1] * other_ratio[2] + b * other_ratio[1] * self_ratio[2],
                              self_ratio[2] * other_ratio[2])
    IN  IF ~t.ok \/ ~o.ok THEN [ok |-> FALSE, value |-> <<>>]
        ELSE [ok |-> TRUE,
              value |-> <<"RGB", ch(t.value[1], o.value[1]), ch(t.value[2], o.value[2]),
                          ch(t.value[3], o.value[3])>>]

Mix(self, color) == MixRatio(self, color, <<1, 2>>, <<1, 2>>)

\* ---------------------------------------------------------- pulse encoding

\* zero with a second set_high
ZeroLong == <<"H", "H", "L", "L", "L", "L">>

zero == <<"H", "L", "L", "L", "L", "L">>

one == <<"H", "H", "H", "L", "L", "L">>

\* send_bit: the writes made for the u8 argument bit
SendBit(bit) == IF bit = 0 THEN zero ELSE one

RECURSIVE SendByteFrom(_, _)
SendByteFrom(byte, i) ==
    IF i = 8 THEN <<>>
    ELSE SendBit(BitAnd(byte, Pow2(7 - i), 8)) \o SendByteFrom(byte, i + 1)

\* send_byte: for i in 0..8 { send_bit(byte & (1 << (7 - i))) }
SendByte(byte) == SendByteFrom(byte, 0)

\* rgb sending red first
RgbOrderRGB(red, green, blue) == SendByte(red) \o SendByte(green) \o SendByte(blue)

\* LedStrip::rgb: the writes made
Rgb(red, green, blue) == SendByte(green) \o SendByte(red) \o SendByte(blue)

\* the level a pin is left at by the writes w
PinAfter(p, w) == IF w = <<>> THEN p ELSE IF w[Len(w)] = "H" THEN "high" ELSE "low"

\* ------------------------------------------------------------ input sets

SampleBytes == {0, 1, 170, 255}

NamedColors ==
    {<<"Black">>, <<"Gray">>, <<"White">>, <<"Red">>, <<"Green">>, <<"Blue">>, <<"Cyan">>,
     <<"Magenta">>, <<"Yellow">>, <<"Orange">>, <<"Purple">>, <<"Pink">>, <<"Turquoise">>}

RgbColors == {<<"RGB", 200, 100, 1>>, <<"RGB", 1, 2, 3>>, <<"RGB", 18, 52, 86>>}

\* u32 arguments: 0, 0xFF, 0xFF00, 0xFF0000, 0x123456, 0xABCDEF, 0xFFFFFF, 0xFF000000, 0xFFFFFFFF
NumSamples ==
    {<<0, 0>>, <<0, 255>>, <<0, 65280>>, <<255, 0>>, <<18, 13398>>, <<171, 52719>>,
     <<255, 65535>>, <<65280, 0>>, <<65535, 65535>>}

NumColors == {<<"NUM", n[1], n[2]>> : n \in NumSamples}

\* two hexadecimal digits per channel, red first, in lower or upper case
FormatHex(t, digits) ==
    <<digits[(t[1] \div 16) + 1], digits[(t[1] % 16) + 1],
      digits[(t[2] \div 16) + 1], digits[(t[2] % 16) + 1],
      digits[(t[3] \div 16) + 1], digits[(t[3] % 16) + 1]>>

WellFormedHex ==
    {FormatHex(<<255, 127, 0>>, HexDigits), FormatHex(<<171, 205, 239>>, HexDigitsUpper)}

BadChars == {"g", "+", "-", " "}

\* strings cut short, strings with one character replaced, strings with a
\* prefix or a seventh character
HexInputs ==
    WellFormedHex
    \cup {SubSeq(s, 1, k) : s \in WellFormedHex, k \in 0..5}
    \cup {[s EXCEPT ![i] = c] : s \in WellFormedHex, i \in 1..6, c \in BadChars}
    \cup {<<"#">> \o s : s \in WellFormedHex}
    \cup {s \o <<"0">> : s \in WellFormedHex}

\* the arguments of send_bit: 0, the masks send_byte passes, and other bytes
BitArgs == {0, 1, 2, 4, 8, 16, 32, 64, 128, 3, 129, 255}

HexColors ==
    {<<"HEX", s>> : s \in WellFormedHex \cup {SubSeq(s, 1, 5) : s \in WellFormedHex}
                          \cup {[s EXCEPT ![i] = "g"] : s \in WellFormedHex, i \in {1, 4}}
                          \cup {[s EXCEPT ![3] = "+"] : s \in WellFormedHex}}

\* microseconds: 0, 1, 50, 200_000, 4_294_967, 4_294_968, 10_000_000, 2^32 - 1
UsSamples ==
    {<<0, 0>>, <<0, 1>>, <<0, 50>>, <<3, 3392>>, <<65, 35127>>, <<65, 35128>>,
     <<152, 38528>>, <<65535, 65535>>}

\* what an each() callback may return
CallbackColors ==
    {<<"Orange">>, <<"RGB", 200, 100, 1>>, <<"HEX", <<"1", "2", "3", "4", "5", "6">>>>,
     <<"HEX", <<"f", "f", "7", "g", "0", "0">>>>}

\* f64 arguments that are exact in binary floating point
Ratios ==
    {<<-1, 1>>, <<-1, 2>>, <<0, 1>>, <<1, 8>>, <<1, 4>>, <<1, 2>>, <<3, 4>>, <<1, 1>>,
     <<3, 2>>, <<2, 1>>, <<3, 1>>}

\* --------------------------------------------------------- the strip driver

\* LedStrip::new: the pin is turned into an output, which drives it low
StripInit(n) ==
    /\ led_count = n
    /\ pin = "low"
    /\ wire = <<>>
    /\ delay_ns = <<0, 0>>
    /\ status = "ok"
    /\ pc = "idle"
    /\ led_index = 0
    /\ calls = <<>>
    /\ op = [name |-> "new", arg |-> <<>>]
    /\ rests = 0

\* an operation that makes the writes w on the pin and returns
Emit(name, arg, w) ==
    /\ pc = "idle"
    /\ status = "ok"
    /\ wire' = w
    /\ pin' = PinAfter(pin, w)
    /\ op' = [name |-> name, arg |-> arg]
    /\ rests' = IF w = <<>> THEN rests ELSE 0
    /\ delay_ns' = <<0, 0>>
    /\ led_index' = 0
    /\ calls' = <<>>
    /\ UNCHANGED <<led_count, status, pc>>

\* an operation that panics before its first write
Panic(name, arg) ==
    /\ pc = "idle"
    /\ status = "ok"
    /\ status' = "panic"
    /\ wire' = <<>>
    /\ op' = [name |-> name, arg |-> arg]
    /\ delay_ns' = <<0, 0>>
    /\ led_index' = 0
    /\ calls' = <<>>
    /\ UNCHANGED <<led_count, pin, pc, rests>>

SendBitCall(bit) == Emit("send_bit", <<bit>>, SendBit(bit))

SendByteCall(byte) == Emit("send_byte", <<byte>>, SendByte(byte))

RgbCall(red, green, blue) == Emit("rgb", <<red, green, blue>>, Rgb(red, green, blue))

ColorCall(color) ==
    LET t == ToRgb(color)
    IN  IF t.ok
        THEN Emit("color", color, Rgb(t.value[1], t.value[2], t.value[3]))
        ELSE Panic("color", color)

HexCall(color) ==
    LET bytes == Parse(color)
    IN  IF bytes.ok
        THEN Emit("hex", color, Rgb(bytes.value[1], bytes.value[2], bytes.value[3]))
        ELSE Panic("hex", color)

ColorNumberCall(color) ==
    LET t == NumChannels(color)
    IN  Emit("color_number", color, Rgb(t[1], t[2], t[3]))

\* rest -> reset -> set_low_for(us * 1_000): the product is computed first; when
\* it does not fit in 32 bits the build decides: with overflow checks the
\* multiplication panics, without them it wraps
RestCall(us) ==
    LET ns == Mul1000(us)
    IN  /\ pc = "idle"
        /\ status = "ok"
        /\ op' = [name |-> "rest", arg |-> us]
        /\ \/ /\ ns.high < 65536
              /\ delay_ns' = <<ns.high, ns.low>>
              /\ wire' = <<"L">>
              /\ pin' = "low"
              /\ rests' = rests + 1
              /\ UNCHANGED status
           \/ /\ ns.high >= 65536
              /\ delay_ns' = <<ns.high % 65536, ns.low>>
              /\ wire' = <<"L">>
              /\ pin' = "low"
              /\ rests' = rests + 1
              /\ UNCHANGED status
           \/ /\ ns.high >= 65536
              /\ status' = "panic"
              /\ wire' = <<>>
              /\ delay_ns' = <<0, 0>>
              /\ UNCHANGED <<pin, rests>>
        /\ led_index' = 0
        /\ calls' = <<>>
        /\ UNCHANGED <<led_count, pc>>

\* the inclusive range 0..=self.led_count
EachRangeInclusive(n) == 0..n

\* the range 0..self.led_count of each's for loop
EachRange(n) == 0..(n - 1)

\* each is entered: the for loop starts at 0
EachCall ==
    /\ pc = "idle"
    /\ status = "ok"
    /\ pc' = "each"
    /\ led_index' = 0
    /\ calls' = <<>>
    /\ wire' = <<>>
    /\ op' = [name |-> "each", arg |-> <<>>]
    /\ delay_ns' = <<0, 0>>
    /\ UNCHANGED <<led_count, pin, status, rests>>

\* one iteration: callback(led_index) returns color, which self.color renders
EachIter(color) ==
    LET t == ToRgb(color)
        w == Rgb(t.value[1], t.value[2], t.value[3])
    IN  /\ pc = "each"
        /\ status = "ok"
        /\ led_index \in EachRange(led_count)
        /\ calls' = Append(calls, <<led_index, Len(wire)>>)
        /\ IF t.ok
           THEN /\ wire' = wire \o w
                /\ pin' = PinAfter(pin, w)
                /\ rests' = 0
                /\ led_index' = led_index + 1
                /\ UNCHANGED status
           ELSE /\ status' = "panic"
                /\ UNCHANGED <<wire, pin, rests, led_index>>
        /\ UNCHANGED <<led_count, delay_ns, pc, op>>

\* the range is exhausted: each returns
EachReturn ==
    /\ pc = "each"
    /\ status = "ok"
    /\ led_index \notin EachRange(led_count)
    /\ pc' = "idle"
    /\ UNCHANGED <<led_count, pin, wire, delay_ns, status, led_index, calls, op, rests>>

Init ==
    /\ \E n \in 0..MaxLeds : StripInit(n)
    /\ result = [ok |-> TRUE, value |-> <<>>]
    /\ mpc = "caller"
    /\ frame = 0

Next ==
    \/ \E bit \in BitArgs : SendBitCall(bit) /\ UNCHANGED <<result, mpc, frame>>
    \/ \E byte \in 0..255 : SendByteCall(byte) /\ UNCHANGED <<result, mpc, frame>>
    \/ \E r \in SampleBytes, g \in SampleBytes, b \in SampleBytes :
          RgbCall(r, g, b) /\ UNCHANGED <<result, mpc, frame>>
    \/ \E c \in NamedColors \cup RgbColors \cup NumColors \cup HexColors :
          ColorCall(c) /\ UNCHANGED <<result, mpc, frame>>
    \/ \E s \in HexInputs : HexCall(s) /\ UNCHANGED <<result, mpc, frame>>
    \/ \E n \in NumSamples : ColorNumberCall(n) /\ UNCHANGED <<result, mpc, frame>>
    \/ \E us \in UsSamples : rests < MaxRests /\ RestCall(us) /\ UNCHANGED <<result, mpc, frame>>
    \/ EachCall /\ UNCHANGED <<result, mpc, frame>>
    \/ \E c \in CallbackColors : EachIter(c) /\ UNCHANGED <<result, mpc, frame>>
    \/ EachReturn /\ UNCHANGED <<result, mpc, frame>>

Spec == Init /\ [][Next]_vars

\* ------------------------------------------------- the functions of Color

\* colours whose conversion never fails
TotalColors == NamedColors \cup RgbColors \cup {<<"NUM", 18, 13398>>}

\* triples in which each channel takes every value once
RoundTripTriples ==
    {<<v, 52, 86>> : v \in 0..255} \cup {<<18, v, 86>> : v \in 0..255}
    \cup {<<18, 52, v>> : v \in 0..255}
    \cup {<<r, g, b>> : r \in SampleBytes, g \in SampleBytes, b \in SampleBytes}

RoundTripColors == {<<"HEX", FormatHex(t, d)>> : t \in RoundTripTriples, d \in {HexDigits, HexDigitsUpper}}

\* the calls a caller may make: [name, arg]
ColorCalls ==
    {[name |-> "to_rgb", arg |-> <<c>>] :
        c \in NamedColors \cup RgbColors \cup NumColors \cup RoundTripColors
              \cup {<<"HEX", h>> : h \in HexInputs}}
    \cup {[name |-> "opacity", arg |-> <<c, f>>] :
        c \in TotalColors \cup HexColors, f \in Ratios}
    \cup {[name |-> "mix", arg |-> <<a, b>>] :
        a \in TotalColors \cup HexColors, b \in TotalColors \cup HexColors}
    \cup {[name |-> "mix_ratio", arg |-> <<a, b, wa, wb>>] :
        a \in TotalColors, b \in TotalColors, wa \in Ratios, wb \in Ratios}

\* the function returns r, or panics (r.ok = FALSE)
Return(r) ==
    /\ mpc = "call"
    /\ result' = r
    /\ status' = IF r.ok THEN "ok" ELSE "panic"
    /\ mpc' = "returned"
    /\ UNCHANGED <<led_count, pin, wire, delay_ns, pc, led_index, calls, op, rests, frame>>

ToRgbCall == op.name = "to_rgb" /\ Return(ToRgb(op.arg[1]))

OpacityCall == op.name = "opacity" /\ Return(Opacity(op.arg[1], op.arg[2]))

MixCall == op.name = "mix" /\ Return(Mix(op.arg[1], op.arg[2]))

MixRatioCall == op.name = "mix_ratio" /\ Return(MixRatio(op.arg[1], op.arg[2], op.arg[3], op.arg[4]))

ColorInit ==
    /\ op \in ColorCalls
    /\ mpc = "call"
    /\ result = [ok |-> TRUE, value |-> <<>>]
    /\ status = "ok"
    /\ led_count = 0
    /\ pin = "low"
    /\ wire = <<>>
    /\ delay_ns = <<0, 0>>
    /\ pc = "idle"
    /\ led_index = 0
    /\ calls = <<>>
    /\ rests = 0
    /\ frame = 0

ColorNext == ToRgbCall \/ OpacityCall \/ MixCall \/ MixRatioCall

ColorSpec == ColorInit /\ [][ColorNext]_vars

\* ------------------------------------------------------------- the spinner

NUM_LEDS == 12

\* 200_000 microseconds
RESET_TIME == <<3, 3392>>

FRAMES == NUM_LEDS

\* the colours computed at the top of the loop; none of the products falls
\* within rounding distance of an integer, so the exact ratios truncate as
\* the f64 values do
color_1 == MixRatio(<<"Green">>, <<"Blue">>, <<1, 1>>, <<3, 10>>).value

color_2 == Opacity(color_1, <<1, 6>>).value

color_3 == Opacity(color_1, <<1, 12>>).value

color_4 == Opacity(color_1, <<1, 24>>).value

\* the closure passed to each
SpinnerCallback(f, i) ==
    LET k == ((f + i) % 65536) % NUM_LEDS
    IN  CASE k = 0 -> color_1
          [] k = 1 -> color_2
          [] k = 2 -> color_3
          [] k = 3 -> color_4
          [] OTHER -> <<"Black">>

\* the frame update taken modulo FRAMES + 1
NextFrameOffByOne(f) == ((f + 1) % 65536) % (FRAMES + 1)

\* frame = (frame + 1) % FRAMES, in u16
NextFrame(f) == ((f + 1) % 65536) % FRAMES

SpinnerInit ==
    /\ StripInit(NUM_LEDS)
    /\ result = [ok |-> TRUE, value |-> <<>>]
    /\ mpc = "rest"
    /\ frame = 0

MainRest ==
    /\ mpc = "rest"
    /\ RestCall(RESET_TIME)
    /\ mpc' = "each"
    /\ UNCHANGED <<result, frame>>

MainEachCall ==
    /\ mpc = "each"
    /\ EachCall
    /\ mpc' = "in_each"
    /\ UNCHANGED <<result, frame>>

MainEachIter ==
    /\ mpc = "in_each"
    /\ EachIter(SpinnerCallback(frame, led_index))
    /\ UNCHANGED <<result, mpc, frame>>

MainEachReturn ==
    /\ mpc = "in_each"
    /\ EachReturn
    /\ mpc' = "advance"
    /\ UNCHANGED <<result, frame>>

MainAdvance ==
    /\ mpc = "advance"
    /\ frame' = NextFrame(frame)
    /\ mpc' = "rest"
    /\ UNCHANGED <<led_count, pin, wire, delay_ns, status, pc, led_index, calls, op, rests, result>>

SpinnerNext == MainRest \/ MainEachCall \/ MainEachIter \/ MainEachReturn \/ MainAdvance

\* main is the only thread and none of its steps blocks
SpinnerSpec == SpinnerInit /\ [][SpinnerNext]_vars /\ WF_vars(SpinnerNext)

\* ------------------------------------------------------------- properties

\* the wire pattern of one bit, written out
BitPulses(set) ==
    IF set THEN <<"H", "H", "H", "L", "L", "L">> ELSE <<"H", "L", "L", "L", "L", "L">>

\* bit k (0 = least significant) of v is set
BitSet(v, k) == (v \div (2 ^ k)) % 2 = 1

\* 8 bits of v, most significant first, as 48 writes
BytePulses(v) ==
    [p \in 1..48 |-> BitPulses(BitSet(v, 7 - ((p - 1) \div 6)))[((p - 1) % 6) + 1]]

\* 24 bits: green, then red, then blue, each most significant bit first
GrbPulses(t) ==
    [p \in 1..144 |->
        LET bitno == (p - 1) \div 6
            channel == <<t[2], t[1], t[3]>>[(bitno \div 8) + 1]
        IN  BitPulses(BitSet(channel, 7 - (bitno % 8)))[((p - 1) % 6) + 1]]

\* C1: rgb(red, green, blue), and color(c) for the triple c converts to, put
\* exactly 24 bits on the pin: green, red, blue, each from bit 7 down to bit
\* 0, a bit sent as a logical 1 exactly when it is set; send_byte sends its
\* 8 bits the same way.  The writes depend on the arguments alone, whatever
\* was called before.
C1_RgbEmitsGrbMsbFirst ==
    /\ op.name = "rgb" => wire = GrbPulses(op.arg)
    /\ (op.name = "color" /\ status = "ok") => wire = GrbPulses(ToRgb(op.arg).value)
    /\ op.name = "send_byte" => wire = BytePulses(op.arg[1])

C1_Witness ==
    /\ op.name = "rgb"
    /\ op.arg = <<170, 1, 255>>
    /\ Len(wire) = 144
    /\ SubSeq(wire, 43, 54) = <<"H", "H", "H", "L", "L", "L", "H", "H", "H", "L", "L", "L">>

\* C2: send_bit makes exactly 6 writes: one set_high and five set_low for the
\* argument 0, three set_high and three set_low for any other argument; so
\* every bit any operation sends starts with the pin high and leaves it low.
C2_SendBitSixWrites ==
    /\ op.name = "send_bit" =>
          /\ Len(wire) = 6
          /\ wire = IF op.arg[1] = 0 THEN <<"H", "L", "L", "L", "L", "L">>
                                     ELSE <<"H", "H", "H", "L", "L", "L">>
          /\ pin = "low"
    /\ op.name \in {"send_bit", "send_byte", "rgb", "color", "hex", "color_number", "each"} =>
          /\ Len(wire) % 6 = 0
          /\ \A k \in 0..((Len(wire) \div 6) - 1) :
                /\ SubSeq(wire, 6 * k + 1, 6 * k + 6)
                      \in {<<"H", "L", "L", "L", "L", "L">>, <<"H", "H", "H", "L", "L", "L">>}
          /\ wire # <<>> => pin = "low"

C2_Witness ==
    /\ op.name = "send_bit"
    /\ op.arg = <<128>>
    /\ wire = <<"H", "H", "H", "L", "L", "L">>
    /\ pin = "low"

\* C3: each invokes the callback once for every index 0 .. led_count - 1 in
\* ascending order, has emitted all 24 bits of LED i when it invokes the
\* callback for i + 1, and has emitted led_count * 24 bits, 6 writes each,
\* when it returns; with led_count = 0 it invokes and emits nothing.
C3_EachCallsInOrder ==
    op.name = "each" =>
        /\ Len(calls) <= led_count
        /\ \A k \in 1..Len(calls) : calls[k] = <<k - 1, 144 * (k - 1)>>
        /\ status = "ok" => Len(wire) = 144 * Len(calls) /\ led_index = Len(calls)
        /\ status = "panic" => Len(wire) = 144 * (Len(calls) - 1)
        /\ (pc = "idle" /\ status = "ok") =>
              /\ Len(calls) = led_count
              /\ Len(wire) = led_count * 24 * 6

C3_Witness ==
    /\ op.name = "each"
    /\ pc = "idle"
    /\ led_count = 3
    /\ calls = <<<<0, 0>>, <<1, 144>>, <<2, 288>>>>
    /\ Len(wire) = 432

\* a string the hex format rejects: shorter than 6 characters, or with a
\* character in its three pairs that is no hexadecimal digit
Malformed(s) == Len(s) < 6 \/ \E i \in 1..6 : ToDigit(s[i]) < 0

\* C4: a malformed hex string, given to hex or to a HEX colour's conversion,
\* is an error the caller can recover from: the program does not panic, no
\* triple is returned and no pulse is emitted for it.
C4_MalformedHexIsRecoverable ==
    /\ (op.name = "hex" /\ Malformed(op.arg)) => (status # "panic" /\ wire = <<>>)
    /\ (op.name = "color" /\ op.arg[1] = "HEX" /\ Malformed(op.arg[2])) =>
          (status # "panic" /\ wire = <<>>)
    /\ (op.name = "to_rgb" /\ mpc = "returned" /\ op.arg[1][1] = "HEX" /\ Malformed(op.arg[1][2])) =>
          (status # "panic" /\ result.value = <<>>)

\* the channels of a packed 24-bit RRGGBB number n = <<hi, lo>>
PackedChannels(n) == <<n[1] % 256, n[2] \div 256, n[2] % 256>>

\* C5: for n below 2^24, NUM(n) converts to (n >> 16) & 0xFF, (n >> 8) & 0xFF,
\* n & 0xFF, and color_number(n) emits the pulses of rgb on that triple.
C5_NumIsPackedRRGGBB ==
    /\ (op.name = "to_rgb" /\ mpc = "returned" /\ op.arg[1][1] = "NUM" /\ op.arg[1][2] < 256) =>
          result = [ok |-> TRUE, value |-> PackedChannels(<<op.arg[1][2], op.arg[1][3]>>)]
    /\ (op.name = "color_number" /\ op.arg[1] < 256) => wire = GrbPulses(PackedChannels(op.arg))
    /\ (op.name = "color" /\ op.arg[1] = "NUM" /\ op.arg[2] < 256) =>
          wire = GrbPulses(PackedChannels(<<op.arg[2], op.arg[3]>>))

\* n / d (d > 0) clamped to [0, 255] and truncated toward zero
TruncClamp(n, d) ==
    IF n < 0 THEN 0
    ELSE IF n >= 255 * d THEN 255
    ELSE CHOOSE k \in 0..255 : k * d <= n /\ n < (k + 1) * d

\* C6: opacity(f) of a colour with triple (r, g, b) converts to, per channel,
\* c * f clamped to [0, 255] and truncated toward zero: Orange gives
\* (127, 63, 0) at 1/2 and (63, 31, 0) at 1/4, a factor above 1 saturates at
\* 255 and a negative factor gives 0.
C6_OpacityClampsAndTruncates ==
    (op.name = "opacity" /\ mpc = "returned" /\ ToRgb(op.arg[1]).ok) =>
        LET t == ToRgb(op.arg[1]).value
            f == op.arg[2]
        IN  /\ result.ok
            /\ result.value[1] = "RGB"
            /\ ToRgb(result.value).value =
                  <<TruncClamp(t[1] * f[1], f[2]), TruncClamp(t[2] * f[1], f[2]),
                    TruncClamp(t[3] * f[1], f[2])>>
            /\ (op.arg[1] = <<"Orange">> /\ f = <<1, 2>>) => ToRgb(result.value).value = <<127, 63, 0>>
            /\ (op.arg[1] = <<"Orange">> /\ f = <<1, 4>>) => ToRgb(result.value).value = <<63, 31, 0>>
            /\ (op.arg[1] = <<"RGB", 200, 100, 1>> /\ f = <<2, 1>>) =>
                  ToRgb(result.value).value = <<255, 200, 2>>
            /\ f[1] < 0 => ToRgb(result.value).value = <<0, 0, 0>>

C6_Witness ==
    /\ op = [name |-> "opacity", arg |-> <<<<"Orange">>, <<1, 2>>>>]
    /\ mpc = "returned"
    /\ result = [ok |-> TRUE, value |-> <<"RGB", 127, 63, 0>>]

\* a * wa + b * wb, clamped and truncated
MixChannel(a, b, wa, wb) == TruncClamp(a * wa[1] * wb[2] + b * wb[1] * wa[2], wa[2] * wb[2])

\* C7: mix_ratio(b, wa, wb) converts to, per channel, a * wa + b * wb clamped
\* to [0, 255] and truncated toward zero, so a sum out of range saturates and
\* never wraps; mix(b) is mix_ratio(b, 1/2, 1/2).
C7_MixRatioClampsAndTruncates ==
    /\ (op.name = "mix_ratio" /\ mpc = "returned" /\ ToRgb(op.arg[1]).ok /\ ToRgb(op.arg[2]).ok) =>
          LET a == ToRgb(op.arg[1]).value
              b == ToRgb(op.arg[2]).value
              wa == op.arg[3]
              wb == op.arg[4]
          IN  /\ result.ok
              /\ result.value[1] = "RGB"
              /\ ToRgb(result.value).value =
                    <<MixChannel(a[1], b[1], wa, wb), MixChannel(a[2], b[2], wa, wb),
                      MixChannel(a[3], b[3], wa, wb)>>
              /\ (op.arg[1] = <<"White">> /\ op.arg[2] = <<"White">> /\ wa = <<1, 1>> /\ wb = <<1, 1>>) =>
                    ToRgb(result.value).value = <<255, 255, 255>>
              /\ (op.arg[1] = <<"Red">> /\ op.arg[2] = <<"Green">> /\ wa = <<1, 1>> /\ wb = <<1, 1>>) =>
                    ToRgb(result.value).value = NamedRgb("Yellow")
              /\ (op.arg[1] = <<"Red">> /\ op.arg[2] = <<"Green">> /\ wa = <<1, 2>> /\ wb = <<1, 1>>) =>
                    ToRgb(result.value).value = <<127, 255, 0>>
    /\ (op.name = "mix" /\ mpc = "returned" /\ ToRgb(op.arg[1]).ok /\ ToRgb(op.arg[2]).ok) =>
          LET a == ToRgb(op.arg[1]).value
              b == ToRgb(op.arg[2]).value
          IN  /\ result.ok
              /\ ToRgb(result.value).value =
                    <<MixChannel(a[1], b[1], <<1, 2>>, <<1, 2>>), MixChannel(a[2], b[2], <<1, 2>>, <<1, 2>>),
                      MixChannel(a[3], b[3], <<1, 2>>, <<1, 2>>)>>
              /\ (op.arg[1] = <<"Red">> /\ op.arg[2] = <<"Green">>) =>
                    /\ ToRgb(result.value).value = <<127, 127, 0>>
                    /\ result = Opacity(<<"Yellow">>, <<1, 2>>)

C7_Witness ==
    /\ op = [name |-> "mix_ratio", arg |-> <<<<"White">>, <<"White">>, <<1, 1>>, <<1, 1>>>>]
    /\ mpc = "returned"
    /\ result = [ok |-> TRUE, value |-> <<"RGB", 255, 255, 255>>]

\* C8: a triple written as the 6 hexadecimal digits RRGGBB, in either case,
\* and converted as a HEX colour comes back unchanged, red first.
C8_HexRoundTrip ==
    (op.name = "to_rgb" /\ mpc = "returned" /\ op.arg[1][1] = "HEX") =>
        \A t \in RoundTripTriples, d \in {HexDigits, HexDigitsUpper} :
            op.arg[1][2] = FormatHex(t, d) => result = [ok |-> TRUE, value |-> t]

C8_Witness ==
    /\ op = [name |-> "to_rgb", arg |-> <<<<"HEX", <<"1", "2", "3", "4", "c", "5">>>>>>]
    /\ mpc = "returned"
    /\ result = [ok |-> TRUE, value |-> <<18, 52, 197>>]

\* what holds at each position of the spinner's main
FrameLatchOrder ==
    /\ status = "ok"
    /\ frame \in 0..(NUM_LEDS - 1)
    /\ mpc = "rest" => (op.name = "new" \/ (Len(wire) = NUM_LEDS * 144 /\ rests = 0))
    /\ mpc = "each" => (rests = 1 /\ pin = "low" /\ wire = <<"L">>)
    /\ (mpc = "in_each" /\ led_index = 0) => (rests = 1 /\ pin = "low" /\ wire = <<>>)
    /\ (mpc = "in_each" /\ led_index > 0) => (rests = 0 /\ Len(wire) = 144 * led_index)
    /\ mpc = "in_each" => led_index <= NUM_LEDS
    /\ mpc = "advance" => (rests = 0 /\ Len(wire) = NUM_LEDS * 144 /\ Len(calls) = NUM_LEDS)

\* C9: in the spinner exactly one rest() latch, with the pin low, lies
\* between the last bit of a frame and the first bit of the next, every
\* each() renders all NUM_LEDS LEDs before the next rest(), the frame counter
\* stays in 0 .. NUM_LEDS - 1, and the cycle repeats forever.
C9_FrameLatchCycle ==
    /\ []FrameLatchOrder
    /\ []<>(mpc = "each")
    /\ []<>(mpc = "advance")

C9_Witness ==
    /\ mpc = "rest"
    /\ frame = NUM_LEDS - 1
    /\ Len(wire) = NUM_LEDS * 144
    /\ rests = 0

\* C10: rest(us) drives the pin low and waits exactly us * 1000 nanoseconds
\* for every u32 us: the product neither overflows nor wraps nor aborts.
C10_RestWaitsExactly ==
    op.name = "rest" =>
        /\ status = "ok"
        /\ pin = "low"
        /\ wire = <<"L">>
        /\ delay_ns[2] = (op.arg[2] * 1000) % 65536
        /\ delay_ns[1] = op.arg[1] * 1000 + (op.arg[2] * 1000) \div 65536

====
